---- MODULE Spec2Model ----
(***************************************************************************)
(* The session controller of the photo restorer (src/App.tsx): the six     *)
(* useState cells of App, the four handlers, and the two suspension points *)
(* (the FileReader decode and the generateContent call).                   *)
(*                                                                         *)
(* JavaScript strings are sequences of tokens (a token is a run of         *)
(* characters the code never looks inside); the separators the code        *)
(* splits on, "," and ".", are tokens of their own.  A nullable value is a *)
(* sequence of length 0 (null / undefined) or 1 (the value).               *)
(***************************************************************************)
EXTENDS Integers, Sequences, FiniteSets, TLC

\* ------------------------------------------------------------------ bounds
MaxUploads == 2
MaxRequests == 2

\* ------------------------------------------------------- nullable values
NULL == <<>>
Some(v) == <<v>>
\* JS truthiness of a nullable string: null, undefined and "" are falsy
Truthy(o) == o # NULL /\ o[1] # <<>>

\* ----------------------------------------------------------- string ops
\* String.prototype.split(sep): the pieces between the separator tokens
RECURSIVE SplitFrom(_, _, _, _)
SplitFrom(s, sep, i, cur) ==
    IF i > Len(s) THEN <<cur>>
    ELSE IF s[i] = sep THEN <<cur>> \o SplitFrom(s, sep, i + 1, <<>>)
    ELSE SplitFrom(s, sep, i + 1, Append(cur, s[i]))

Split(s, sep) == SplitFrom(s, sep, 1, <<>>)

\* Array.prototype.join(sep)
RECURSIVE Join(_, _)
Join(pieces, sep) ==
    IF Len(pieces) = 0 THEN <<>>
    ELSE IF Len(pieces) = 1 THEN pieces[1]
    ELSE pieces[1] \o <<sep>> \o Join(Tail(pieces), sep)

\* arr[1] of JavaScript (the second element), undefined when absent
Second(pieces) == IF Len(pieces) >= 2 THEN Some(pieces[2]) ELSE NULL

\* ${x} inside a template literal
Interpolate(o) == IF o = NULL THEN <<"undefined">> ELSE o[1]

\* `data:${mimeType};base64,${base64}`
DataURL(mimeType, base64) ==
    <<"data:">> \o Interpolate(mimeType) \o <<";base64", ",">> \o Interpolate(base64)

\* ------------------------------------------------------------ constants
RESTORE_PROMPT == <<"Restore and colorize this photo in ultra high quality 4K resolution. ...">>
READ_ERROR == <<"Failed to read the image file.">>
PRECONDITION_ERROR == <<"Please upload an image and ensure your API key is configured.">>
NO_IMAGE_ERROR == <<"The AI model did not return an image. It might have refused the request.">>
GENERIC_ERROR == <<"An error occurred during the restoration process.">>
MODEL_NAME == <<"gemini-2.5-flash-image-preview">>

\* ---------------------------------------------------------------- inputs
\* The files a user can select: File.name, File.type (empty when the
\* browser does not know the type) and the base64 of the content.
Files ==
    { [name |-> <<"grandma", ".", "jpg">>, type |-> <<"image/jpeg">>, b64 |-> <<"QUFB">>],
      [name |-> <<"scan">>, type |-> <<>>, b64 |-> <<"QkJC">>],
      [name |-> <<"old", ".", "photo", ".", "gif">>, type |-> <<"image/gif">>, b64 |-> <<"Q0ND">>] }

\* process.env.API_KEY: unset, empty or set
ApiKeys == { NULL, Some(<<>>), Some(<<"key">>) }

\* The content parts the service can return
TextPart == [inlineData |-> NULL, text |-> Some(<<"sorry">>)]
ImagePart(d, m) == [inlineData |-> Some([data |-> Some(d), mimeType |-> Some(m)]), text |-> NULL]
Image1 == ImagePart(<<"UDE=">>, <<"image/png">>)
Image2 == ImagePart(<<"UDI=">>, <<"image/webp">>)

\* response.candidates?.[0]?.content?.parts: missing, or a list of parts
Responses ==
    { [parts |-> NULL] } \cup
    { [parts |-> Some(ps)] :
        ps \in { <<>>, <<TextPart>>, <<Image1>>, <<TextPart, Image2>>,
                 <<Image1, Image2>>, <<TextPart, Image2, Image1>> } }

\* What the call can throw: an error with no message, an empty one, or one
Failures == { [message |-> NULL], [message |-> Some(<<>>)], [message |-> Some(<<"network timeout">>)] }

NoArg == [none |-> TRUE]

\* ----------------------------------------------------------------- state
VARIABLES
    originalImage,      \* useState<string | null>
    originalMimeType,   \* useState<string | null>
    restoredImage,      \* useState<string | null>
    isLoading,          \* useState<boolean>
    error,              \* useState<string | null>
    fileName,           \* useState<string | null>
    apiKey,             \* process.env.API_KEY
    pending,            \* fileToBase64 promises not yet settled
    nUploads,           \* files selected so far
    sent,               \* every generateContent request issued, in order
    inflight,           \* generateContent promises not yet settled
    download,           \* the link the step just taken clicked, if it clicked one
    last                \* the step just taken and its input

fields == <<originalImage, originalMimeType, restoredImage, isLoading, error, fileName>>
vars == <<originalImage, originalMimeType, restoredImage, isLoading, error, fileName,
          apiKey, pending, nUploads, sent, inflight, download, last>>

Step(op, arg, req) == [op |-> op, arg |-> arg, req |-> req]

Init ==
    /\ originalImage = NULL
    /\ originalMimeType = NULL
    /\ restoredImage = NULL
    /\ isLoading = FALSE
    /\ error = NULL
    /\ fileName = NULL
    /\ apiKey \in ApiKeys
    /\ pending = {}
    /\ nUploads = 0
    /\ sent = <<>>
    /\ inflight = {}
    /\ download = NULL
    /\ last = Step("Init", NoArg, NULL)

\* --------------------------------------------------------------- helpers
\* fileToBase64: reader.result is the data URL of the file; the promise
\* resolves to the piece after the first comma and to file.type
ReaderResult(file) ==
    DataURL(Some(IF file.type = <<>> THEN <<"application/octet-stream">> ELSE file.type),
            Some(file.b64))

fileToBase64(file) ==
    [base64 |-> Second(Split(ReaderResult(file), ",")), mimeType |-> Some(file.type)]

\* (mutation) handleReset without setFileName(null)
ClearFields_KeepsFileName ==
    /\ originalImage' = NULL
    /\ originalMimeType' = NULL
    /\ restoredImage' = NULL
    /\ isLoading' = FALSE
    /\ error' = NULL
    /\ fileName' = fileName

\* the six setters of handleReset
ClearFields ==
    /\ originalImage' = NULL
    /\ originalMimeType' = NULL
    /\ restoredImage' = NULL
    /\ isLoading' = FALSE
    /\ error' = NULL
    /\ fileName' = NULL

\* the requests in flight, each marked once the reset control's handler
\* has run during its flight
MarkReset(reqs) == { [q EXCEPT !.resetSince = TRUE] : q \in reqs }

\* ------------------------------------------------------------- handlers
\* handleReset
HandleReset ==
    /\ ClearFields
    /\ inflight' = MarkReset(inflight)
    /\ last' = Step("Reset", NoArg, NULL)
    /\ download' = NULL
    /\ UNCHANGED <<apiKey, pending, nUploads, sent>>

\* (mutation) handleFileChange without its call of handleReset()
HandleFileChange_NoReset(file) ==
    /\ nUploads < MaxUploads
    /\ nUploads' = nUploads + 1
    /\ pending' = pending \cup { [id |-> nUploads + 1, file |-> file] }
    /\ last' = Step("Upload", file, NULL)
    /\ download' = NULL
    /\ UNCHANGED <<originalImage, originalMimeType, restoredImage, isLoading, error, fileName,
                   apiKey, sent, inflight>>

\* handleFileChange up to its await: handleReset(), then the read starts
HandleFileChange(file) ==
    /\ nUploads < MaxUploads
    /\ ClearFields
    /\ nUploads' = nUploads + 1
    /\ pending' = pending \cup { [id |-> nUploads + 1, file |-> file] }
    /\ last' = Step("Upload", file, NULL)
    /\ download' = NULL
    /\ UNCHANGED <<apiKey, sent, inflight>>

\* handleFileChange after the await, the read having succeeded
DecodeOk(p) ==
    /\ p \in pending
    /\ LET r == fileToBase64(p.file)
       IN /\ originalImage' = Some(DataURL(r.mimeType, r.base64))
          /\ originalMimeType' = r.mimeType
          /\ fileName' = Some(p.file.name)
    /\ pending' = pending \ {p}
    /\ last' = Step("DecodeOk", p.file, NULL)
    /\ download' = NULL
    /\ UNCHANGED <<restoredImage, isLoading, error, apiKey, nUploads, sent, inflight>>

\* handleFileChange after the await, the read having failed
DecodeFail(p) ==
    /\ p \in pending
    /\ error' = Some(READ_ERROR)
    /\ pending' = pending \ {p}
    /\ last' = Step("DecodeFail", p.file, NULL)
    /\ download' = NULL
    /\ UNCHANGED <<originalImage, originalMimeType, restoredImage, isLoading, fileName,
                   apiKey, nUploads, sent, inflight>>

\* (mutation) the guard without the credential check
PreconditionFails_NoKeyCheck ==
    ~Truthy(originalImage) \/ ~Truthy(originalMimeType)

\* the guard of handleRestorePhoto
PreconditionFails ==
    ~Truthy(originalImage) \/ ~Truthy(originalMimeType) \/ ~Truthy(apiKey)

\* (mutation) the request built from the piece before the comma
BuildRequest_FirstPiece ==
    [apiKey |-> apiKey,
     model |-> MODEL_NAME,
     data |-> Some(Split(originalImage[1], ",")[1]),
     mimeType |-> originalMimeType[1],
     text |-> RESTORE_PROMPT]

\* the request handleRestorePhoto builds
BuildRequest ==
    [apiKey |-> apiKey,
     model |-> MODEL_NAME,
     data |-> Second(Split(originalImage[1], ",")),
     mimeType |-> originalMimeType[1],
     text |-> RESTORE_PROMPT]

\* handleRestorePhoto, the guard failing
RestoreRejected ==
    /\ PreconditionFails
    /\ error' = Some(PRECONDITION_ERROR)
    /\ last' = Step("RestoreRejected", NoArg, NULL)
    /\ download' = NULL
    /\ UNCHANGED <<originalImage, originalMimeType, restoredImage, isLoading, fileName,
                   apiKey, pending, nUploads, sent, inflight>>

\* handleRestorePhoto up to its await
RestoreAccepted ==
    /\ ~PreconditionFails
    /\ Len(sent) < MaxRequests
    /\ isLoading' = TRUE
    /\ error' = NULL
    /\ restoredImage' = NULL
    /\ sent' = Append(sent, BuildRequest)
    /\ inflight' = inflight \cup { [id |-> Len(sent) + 1, resetSince |-> FALSE] }
    /\ last' = Step("RestoreAccepted", NoArg, NULL)
    /\ download' = NULL
    /\ UNCHANGED <<originalImage, originalMimeType, fileName, apiKey, pending, nUploads>>

HandleRestorePhoto == RestoreRejected \/ RestoreAccepted

\* the for loop over the parts: the inlineData of the first part that has one
RECURSIVE FirstInlineData(_)
FirstInlineData(parts) ==
    IF parts = <<>> THEN NULL
    ELSE IF Head(parts).inlineData # NULL THEN Head(parts).inlineData
    ELSE FirstInlineData(Tail(parts))

\* response.candidates?.[0]?.content?.parts || []
PartsOf(response) == IF response.parts = NULL THEN <<>> ELSE response.parts[1]

\* (mutation) the catch block ignoring e.message
CatchMessage_AlwaysGeneric(e) == GENERIC_ERROR

\* e.message || "An error occurred during the restoration process."
CatchMessage(e) == IF Truthy(e.message) THEN e.message[1] ELSE GENERIC_ERROR

\* (mutation) a response without an image accepted silently (no throw)
Respond_NoThrow(q, response) ==
    /\ q \in inflight
    /\ LET found == FirstInlineData(PartsOf(response))
       IN IF found # NULL
          THEN /\ restoredImage' = Some(DataURL(found[1].mimeType, found[1].data))
               /\ last' = Step("Restored", response, Some(q))
          ELSE /\ restoredImage' = restoredImage
               /\ last' = Step("NoImage", response, Some(q))
    /\ error' = error
    /\ isLoading' = FALSE
    /\ inflight' = inflight \ {q}
    /\ download' = NULL
    /\ UNCHANGED <<originalImage, originalMimeType, fileName, apiKey, pending, nUploads, sent>>

\* handleRestorePhoto after the await, the call having returned `response`
Respond(q, response) ==
    /\ q \in inflight
    /\ LET found == FirstInlineData(PartsOf(response))
       IN IF found # NULL
          THEN /\ restoredImage' = Some(DataURL(found[1].mimeType, found[1].data))
               /\ error' = error
               /\ last' = Step("Restored", response, Some(q))
          ELSE /\ restoredImage' = restoredImage
               /\ error' = Some(CatchMessage([message |-> Some(NO_IMAGE_ERROR)]))
               /\ last' = Step("NoImage", response, Some(q))
    /\ isLoading' = FALSE
    /\ inflight' = inflight \ {q}
    /\ download' = NULL
    /\ UNCHANGED <<originalImage, originalMimeType, fileName, apiKey, pending, nUploads, sent>>

\* (mutation) the catch block without the finally that clears isLoading
ServiceFail_NoFinally(q, e) ==
    /\ q \in inflight
    /\ error' = Some(CatchMessage(e))
    /\ inflight' = inflight \ {q}
    /\ last' = Step("ServiceFailed", e, Some(q))
    /\ download' = NULL
    /\ UNCHANGED <<originalImage, originalMimeType, restoredImage, isLoading, fileName,
                   apiKey, pending, nUploads, sent>>

\* handleRestorePhoto after the await, the call having thrown `e`
ServiceFail(q, e) ==
    /\ q \in inflight
    /\ error' = Some(CatchMessage(e))
    /\ isLoading' = FALSE
    /\ inflight' = inflight \ {q}
    /\ last' = Step("ServiceFailed", e, Some(q))
    /\ download' = NULL
    /\ UNCHANGED <<originalImage, originalMimeType, restoredImage, fileName,
                   apiKey, pending, nUploads, sent>>

\* fileName?.split('.').slice(0, -1).join('.') || 'photo'
OriginalName ==
    LET pieces == IF fileName = NULL THEN <<>> ELSE Split(fileName[1], ".")
        base == IF Len(pieces) = 0 THEN <<>> ELSE Join(SubSeq(pieces, 1, Len(pieces) - 1), ".")
    IN IF base # <<>> THEN base ELSE <<"photo">>

\* `${originalName}-restored.png`
DownloadName == OriginalName \o <<"-restored", ".", "png">>

\* (mutation) handleDownload without its early return
HandleDownload_NoGuard ==
    /\ download' = Some([href |-> Interpolate(restoredImage), download |-> DownloadName])
    /\ last' = Step("Download", NoArg, NULL)
    /\ UNCHANGED <<originalImage, originalMimeType, restoredImage, isLoading, error, fileName,
                   apiKey, pending, nUploads, sent, inflight>>

\* handleDownload
HandleDownload ==
    /\ IF ~Truthy(restoredImage)
       THEN /\ download' = NULL
            /\ last' = Step("DownloadSkipped", NoArg, NULL)
       ELSE /\ download' = Some([href |-> restoredImage[1], download |-> DownloadName])
            /\ last' = Step("Download", NoArg, NULL)
    /\ UNCHANGED <<originalImage, originalMimeType, restoredImage, isLoading, error, fileName,
                   apiKey, pending, nUploads, sent, inflight>>

\* ------------------------------------------------------- rendered controls
\* FileUploader is rendered while originalImage is falsy; its input is
\* disabled while isLoading
UploaderOffered == ~Truthy(originalImage) /\ ~isLoading
\* (mutation) the Restore button without disabled={isLoading}
RestoreOffered_NeverDisabled == Truthy(originalImage)

\* (mutation) the reset button without disabled={isLoading}
ResetOffered_NeverDisabled == Truthy(originalImage)

\* the three buttons are rendered while originalImage is truthy
RestoreOffered == Truthy(originalImage) /\ ~isLoading
DownloadOffered == Truthy(originalImage) /\ Truthy(restoredImage) /\ ~isLoading
ResetOffered == Truthy(originalImage) /\ ~isLoading

Upload == \E file \in Files : UploaderOffered /\ HandleFileChange(file)
Restore == RestoreOffered /\ HandleRestorePhoto
Download == DownloadOffered /\ HandleDownload
Reset == ResetOffered /\ HandleReset
Decoded == \E p \in pending : DecodeOk(p)
DecodeFailed == \E p \in pending : DecodeFail(p)
Responded == \E q \in inflight, response \in Responses : Respond(q, response)
Failed == \E q \in inflight, e \in Failures : ServiceFail(q, e)

\* the application, driven through the controls it renders
Next ==
    \/ Upload
    \/ Restore
    \/ Download
    \/ Reset
    \/ Decoded
    \/ DecodeFailed
    \/ Responded
    \/ Failed

Spec == Init /\ [][Next]_vars

\* the handlers called in any state, whatever the controls show
UploadAny == \E file \in Files : HandleFileChange(file)
RestoreAny == HandleRestorePhoto
DownloadAny == HandleDownload
ResetAny == HandleReset

NextOpen ==
    \/ UploadAny
    \/ RestoreAny
    \/ DownloadAny
    \/ ResetAny
    \/ Decoded
    \/ DecodeFailed
    \/ Responded
    \/ Failed

SpecOpen == Init /\ [][NextOpen]_vars

\* the service settles every call: a pending generateContent promise is
\* eventually resolved or rejected
Settled == Responded \/ Failed

\* the application behind its controls, with a service that always settles
SpecFair == Spec /\ WF_vars(Settled)

\* ---------------------------------------------------------------- claims
\* a response that carries inline image data in some part
HasImage(response) ==
    /\ response.parts # NULL
    /\ \E i \in 1..Len(response.parts[1]) : response.parts[1][i].inlineData # NULL

\* the position of the first part that carries inline image data
FirstImageIndex(response) ==
    CHOOSE i \in 1..Len(response.parts[1]) :
        /\ response.parts[1][i].inlineData # NULL
        /\ \A j \in 1..(i - 1) : response.parts[1][j].inlineData = NULL

\* the step just taken was the arrival of a response
ResponseArrived == last.op \in {"Restored", "NoImage"}

AllEmpty ==
    /\ originalImage = NULL
    /\ originalMimeType = NULL
    /\ restoredImage = NULL
    /\ fileName = NULL
    /\ error = NULL
    /\ isLoading = FALSE

\* C1: through the rendered controls, a restored image is only ever held
\* together with an original image.
C1_RestoredOnlyWithOriginal == restoredImage # NULL => originalImage # NULL

C1_Witness == restoredImage # NULL /\ originalImage # NULL /\ last.op = "Restored"

\* C2: through the rendered controls (Restore disabled while isLoading), at
\* most one request to the service is in flight.
C2_AtMostOneInFlight == Cardinality(inflight) <= 1

C2_Witness == Cardinality(inflight) = 1 /\ Len(sent) = 2 /\ last.op = "RestoreAccepted"

\* C3: isLoading is true exactly while a dispatched request has not completed.
C3_LoadingIffInFlight == isLoading <=> (inflight # {})

C3_Witness == last.op = "ServiceFailed" /\ ~isLoading /\ inflight = {} /\ Len(sent) = 2

\* C4: the completion (response or failure) of a request during whose
\* flight handleReset was invoked changes no field of the session state.
C4_LateResponseDiscarded ==
    [][(last'.req # NULL /\ last'.req[1].resetSince) => UNCHANGED fields]_vars

\* C5: handleRestorePhoto called without an original image or without a
\* credential issues no request, sets the precondition message and leaves
\* isLoading as it was.
C5_RejectedWithoutCall ==
    [][(/\ last'.op \in {"RestoreAccepted", "RestoreRejected"}
        /\ (originalImage = NULL \/ ~Truthy(apiKey)))
       => (/\ sent' = sent
           /\ inflight' = inflight
           /\ error' = Some(PRECONDITION_ERROR)
           /\ isLoading' = isLoading)]_vars

C5_Witness ==
    /\ last.op = "RestoreRejected"
    /\ originalImage = NULL
    /\ Truthy(apiKey)
    /\ error = Some(PRECONDITION_ERROR)
    /\ sent = <<>>

\* the request a restore issued right after the decode of last.arg
IssuesTheRequestOfTheUpload ==
    /\ Len(sent') = Len(sent) + 1
    /\ Cardinality(inflight') = Cardinality(inflight) + 1
    /\ sent'[Len(sent')].data = Some(last.arg.b64)
    /\ sent'[Len(sent')].mimeType = last.arg.type
    /\ sent'[Len(sent')].text = RESTORE_PROMPT

RestoreRightAfterDecode ==
    /\ last.op = "DecodeOk"
    /\ last'.op \in {"RestoreAccepted", "RestoreRejected"}
    /\ Truthy(apiKey)

\* C6 (as stated): a restore right after the successful decode of a file of
\* any media type, with a credential, issues exactly one request carrying
\* the payload, the media type and the fixed instruction.
C6_AnyTypeIssuesOneRequest ==
    [][RestoreRightAfterDecode => IssuesTheRequestOfTheUpload]_vars

\* C6, restricted: the same for every file whose media type is not empty.
C6_TypedFileIssuesOneRequest ==
    [][(RestoreRightAfterDecode /\ last.arg.type # <<>>) => IssuesTheRequestOfTheUpload]_vars

C6_Witness ==
    /\ last.op = "RestoreAccepted"
    /\ nUploads = 1
    /\ Len(sent) = 1
    /\ sent[1].mimeType = <<"image/gif">>
    /\ sent[1].data = Some(<<"Q0ND">>)

\* C7: a response without inline image data ends in Failed: a non-empty
\* error, no restored image, isLoading false.
C7_NoImageFails ==
    (ResponseArrived /\ ~HasImage(last.arg))
        => (/\ last.op = "NoImage"
            /\ Truthy(error)
            /\ restoredImage = NULL
            /\ ~isLoading)

C7_Witness == last.op = "NoImage" /\ last.arg.parts = NULL /\ Truthy(error)

\* C8: after a response whose first image part has payload P and media
\* type M, restoredImage is the data URL of (P, M) and error is null.
C8_FirstImageShown ==
    (ResponseArrived /\ HasImage(last.arg))
        => LET img == last.arg.parts[1][FirstImageIndex(last.arg)].inlineData[1]
           IN /\ restoredImage = Some(<<"data:">> \o img.mimeType[1] \o <<";base64", ",">> \o img.data[1])
              /\ error = NULL

\* C9: after the call fails with message m, error is m (the generic message
\* when there is none), isLoading is false and restoredImage is null.
C9_FailureMessageShown ==
    last.op = "ServiceFailed"
        => (/\ last.arg.message \notin { NULL, Some(<<>>) } => error = last.arg.message
            /\ last.arg.message \in { NULL, Some(<<>>) } => error = Some(GENERIC_ERROR)
            /\ ~isLoading
            /\ restoredImage = NULL)

C9_Witness ==
    /\ last.op = "ServiceFailed"
    /\ last.arg.message = Some(<<"network timeout">>)
    /\ error = Some(<<"network timeout">>)

\* C10: handleReset can run in every state, and the state right after it
\* has every field empty and isLoading false, as at the start.
C10_ResetYieldsInitial ==
    /\ ENABLED ResetAny
    /\ last.op = "Reset" => AllEmpty

C10_Witness == last.op = "Reset" /\ inflight # {} /\ pending # {} /\ Len(sent) = 2

\* C11: with a service that always settles its calls, every state in which
\* isLoading is true is followed by one in which it is false.
C11_LoadingEnds == isLoading ~> ~isLoading

C11_Witness == ~isLoading /\ last.req # NULL /\ inflight = {} /\ pending # {}

\* C12: handleDownload changes no field of the session state, and clicks no
\* link when restoredImage is absent.
C12_DownloadLeavesState ==
    [][last'.op \in {"Download", "DownloadSkipped"}
       => (/\ UNCHANGED fields
           /\ restoredImage = NULL => download' = NULL)]_vars

C12_Witness ==
    /\ last.op = "DownloadSkipped"
    /\ restoredImage = NULL
    /\ originalImage # NULL
    /\ download = NULL

\* the name with its last extension segment stripped: what precedes the last
\* "." of the name, the whole name when it has none
StrippedName(name) ==
    LET dots == { i \in 1..Len(name) : name[i] = "." }
    IN IF dots = {} THEN name
       ELSE SubSeq(name, 1, (CHOOSE i \in dots : \A j \in dots : j <= i) - 1)

\* C13: the link handleDownload clicks suggests <base>-restored.png, <base>
\* being the original name without its last extension segment, or "photo"
\* when no name is known.
C13_DownloadNameFromOriginal ==
    download # NULL
        => download[1].download =
              (IF fileName = NULL THEN <<"photo">> ELSE StrippedName(fileName[1]))
                  \o <<"-restored", ".", "png">>

\* C13, restricted: the same for every name that has an extension.
C13_DownloadNameWithExtension ==
    (download # NULL /\ fileName # NULL /\ \E i \in 1..Len(fileName[1]) : fileName[1][i] = ".")
        => download[1].download = StrippedName(fileName[1]) \o <<"-restored", ".", "png">>

C13_Witness ==
    /\ download # NULL
    /\ fileName = Some(<<"old", ".", "photo", ".", "gif">>)
    /\ download[1].download = <<"old", ".", "photo", "-restored", ".", "png">>

\* the three cells an upload fills hold the given file
HoldsFile(file) ==
    /\ originalImage = Some(<<"data:">> \o file.type \o <<";base64", ",">> \o file.b64)
    /\ originalMimeType = Some(file.type)
    /\ fileName = Some(file.name)

\* C14 (as stated): selecting a file clears and replaces in one step: the
\* state right after the selection already holds the new file.
C14_UploadReplacesAtOnce == last.op = "Upload" => HoldsFile(last.arg)

\* C14 (amended): the selection clears all six cells in one step and leaves
\* the read pending; the completion of the read fills originalImage, its
\* media type and fileName together in a later step.
C14_UploadClearsThenFills ==
    /\ last.op = "Upload" => (AllEmpty /\ pending # {})
    /\ last.op = "DecodeOk" => HoldsFile(last.arg)

C14_Witness ==
    /\ last.op = "DecodeOk"
    /\ HoldsFile(last.arg)
    /\ restoredImage = NULL
    /\ nUploads = 1

\* C15: right after a failed read, error is the failed-to-read message and
\* the rest of the state is as in Empty.
C15_DecodeFailureLeavesEmpty ==
    last.op = "DecodeFail"
        => (/\ error = Some(READ_ERROR)
            /\ originalImage = NULL
            /\ fileName = NULL
            /\ restoredImage = NULL
            /\ ~isLoading)

\* C15, restricted: the same when no other read was pending at the selection
\* of the file whose read failed (the first file selected, read alone).
C15_LoneDecodeFailureLeavesEmpty ==
    (last.op = "DecodeFail" /\ nUploads = 1)
        => (/\ error = Some(READ_ERROR)
            /\ originalImage = NULL
            /\ fileName = NULL
            /\ restoredImage = NULL
            /\ ~isLoading)

\* C16: whenever isLoading is true, error and restoredImage are null.
C16_LoadingMeansClean == isLoading => (error = NULL /\ restoredImage = NULL)

\* C16, the transition alone: right after a request is accepted isLoading
\* is true and error and restoredImage are null.
C16_AcceptClears ==
    last.op = "RestoreAccepted" => (isLoading /\ error = NULL /\ restoredImage = NULL)

\* Behind the rendered controls the response shown is that of the request
\* issued last: a later accepted request would have cleared restoredImage.
RestoredFromLatestRequest == last.op = "Restored" => last.req[1].id = Len(sent)

\* C17: a restored image is the answer to a request whose payload and media
\* type are those of the original image held beside it.
C17_RestoredBesideItsOriginal ==
    restoredImage # NULL
        => (/\ originalImage # NULL
            /\ Second(Split(originalImage[1], ",")) = sent[Len(sent)].data
            /\ originalMimeType = Some(sent[Len(sent)].mimeType))

\* C18: when the read that completes last leaves no read pending and an
\* earlier read of an overlapping selection has already filled the state,
\* the state ends with the file selected last: either the completing read
\* is of that file, or it changes nothing.
C18_LastSelectedWins ==
    [][(/\ last'.op = "DecodeOk"
        /\ pending # {}
        /\ pending' = {}
        /\ originalImage # NULL)
       => LET p == CHOOSE x \in pending : TRUE
          IN \/ /\ p.id = nUploads
                /\ originalMimeType' = Some(p.file.type)
                /\ fileName' = Some(p.file.name)
             \/ /\ p.id < nUploads
                /\ UNCHANGED <<originalImage, originalMimeType, fileName>>]_vars

====
